---- MODULE Spec2Model ----
(***************************************************************************)
(* The wallet-monitor orchestrator (class WalletManager of                 *)
(* src/multi-wallet-exporter.ts): construction from a chain configuration, *)
(* the cross-chain fanout queries, the wallet lock API and the event       *)
(* wiring.  The per-chain manager (ChainWalletManager), its lock registry  *)
(* and mapConcurrent live in files that are not part of the sources at     *)
(* hand; they are modelled from the specification (sections 4.D, 4.F, 4.G) *)
(* and marked so in the model map.                                         *)
(***************************************************************************)
EXTENDS Integers, Sequences, FiniteSets, TLC

----------------------------------------------------------------------------
(* Bounds *)

MaxConfigLen == 3      \* entries of the configuration record
MaxHeight == 2         \* block heights a driver may answer: 1..MaxHeight
MaxSnapshot == 1       \* balance snapshots a manager publishes: 0..MaxSnapshot
NumCallers == 2        \* concurrent callers of the lock API
MaxEvents == 2         \* events the chain managers emit in a run
MaxListeners == 2      \* event names subscribed to on the orchestrator
MaxTime == 3           \* readings of the clock: 1..MaxTime

----------------------------------------------------------------------------
(* Chain names *)

\* KNOWN_CHAINS of ./wallets: the closed set of chain names.
KnownChains == {"ethereum", "solana"}

\* Keys a configuration or a caller may carry: the known names and one that
\* is not a chain.
ChainNames == KnownChains \cup {"bogus"}

isChain(chainName) == chainName \in KnownChains

Range(s) == {s[i] : i \in DOMAIN s}

\* Object.entries(config): a record has each key once, in insertion order.
Configs ==
  {s \in UNION {[1..n -> ChainNames] : n \in 0..MaxConfigLen} :
     \A i, j \in DOMAIN s : i # j => s[i] # s[j]}

\* options?.failOnInvalidChain as the constructor receives it: no options
\* object, an options object without the field, or the field set.
OptionValues == {"undefined", "absent", "true", "false"}

\* JavaScript truthiness of options?.failOnInvalidChain.
FailOnInvalidChain(opt) == opt = "true"

\* The events a chain manager emits.
EventNames == {"balances", "error", "rebalance-started", "rebalance-finished",
               "rebalance-error", "active-wallets-count", "wallets-lock-period"}

Heights == 1..MaxHeight

\* mapConcurrent's default concurrency.
DefaultConcurrency == 1

VARIABLES
  config,         \* the configuration record, as its entries in order
  options,        \* options?.failOnInvalidChain
  ctorIdx,        \* the entry the constructor's loop is at
  ctorStatus,     \* "running" | "done" | "failed"
  managers,       \* this.managers: the chain names with a manager, in order
  handlers,       \* per chain: the events the orchestrator listens to on its manager
  startCalls,     \* per chain: how often its manager's start() was called
  ctorTrace,      \* the calls the constructor made on and around the managers, in order
  snapshot,       \* per chain: the manager's current balance snapshot (a version)
  op,             \* the fanout operation in progress
  phase,          \* its caller: "idle" | "awaiting" | "returned" | "threw"
  stage,          \* the mapConcurrent its tasks belong to: "none" | "heights" | "fanout"
  heightsArg,     \* pullBalancesAtBlockHeight's argument
  heights,        \* blockHeightPerChain of pullBalancesAtBlockHeight
  tasks,          \* per chain: the mapper's task, "new" | "running" | "ok" | "err"
  pending,        \* per chain: what the running task's manager call was given / has read
  blockHeightPerChain, \* the accumulator of getBlockHeightForAllSupportedChains
  result,         \* the accumulator of mapToChains / pullBalancesAtBlockHeight
  outcome,        \* what the caller got: a value or an error
  managerCalls,   \* every call made on a chain manager by a fanout operation
  driverHeights,  \* per chain: the height its driver answered, <<>> before it did
  driverFailed,   \* the chains whose driver failed getBlockHeight
  snapAtCall,     \* per chain: the snapshot when the fanout operation was called
  lock,           \* per chain and address: the registry's entry (holder 0: free)
  waiters,        \* per chain and address: the callers waiting, first come first
  pc,             \* per caller: "idle" | "acquiring" | "fn" | "fnDone" | "returned"
  call,           \* per caller: the lock API call it is in
  fnResult,       \* per caller: how withWallet's fn ended
  lockOutcome,    \* per caller: what its call returned or threw
  holds,          \* per caller: the wallets it got from acquireLock and has not released
  releaseCalls,   \* per caller: releaseLock calls made by its withWallet
  managerOps,     \* per caller: the manager methods its call has invoked
  metricsEnabled, \* options?.metrics?.enabled: whether this.exporter exists
  listeners,      \* this.emitter: the event names with a listener registered by on()
  emitted,        \* every event the chain managers emitted, in order
  busLog,         \* every delivery to a listener of this.emitter, in order
  metricsLog,     \* every update made on this.exporter, in order
  thrown,         \* the emissions whose handler threw back into the manager
  stopped,        \* the chains whose manager had stop() called
  stopReturned,   \* whether WalletManager.stop() has returned
  gauge,          \* MultiWalletExporter.gauge: per label set, the value set
  lastUpdate,     \* MultiWalletExporter.lastUpdate: per chain, the time set
  now,            \* Date.now()
  errorCounters,  \* MultiWalletExporter.errorCounters: per chain, its counter
  counters,       \* the error counters created, in order, with their values
  received        \* the events MultiWalletExporter's handlers have run for

ctorVars == <<config, options, ctorIdx, ctorStatus, managers, handlers, startCalls,
              ctorTrace>>
fanVars == <<op, phase, stage, heightsArg, heights, tasks, pending,
             blockHeightPerChain, result, outcome, managerCalls, driverHeights,
             driverFailed, snapAtCall>>
lockVars == <<lock, waiters, pc, call, fnResult, lockOutcome, holds, releaseCalls,
              managerOps>>
eventVars == <<listeners, emitted, busLog, metricsLog, thrown, stopped, stopReturned>>
exporterVars == <<gauge, lastUpdate, now, errorCounters, counters, received>>
vars == <<ctorVars, snapshot, fanVars, lockVars, metricsEnabled, eventVars, exporterVars>>

Callers == 1..NumCallers

\* The wallet addresses configured for a chain.
Addresses == {"0xA"}

Free == [holder |-> 0, lease |-> FALSE]
NoCall == [api |-> "none", chain |-> "", address |-> "", lease |-> FALSE,
           timeout |-> FALSE]

NoOutcome == [kind |-> "none", error |-> "", chain |-> "", value |-> <<>>]
Value(v) == [kind |-> "value", error |-> "", chain |-> "", value |-> v]
Threw(e, c) == [kind |-> "error", error |-> e, chain |-> c, value |-> <<>>]

ManagerSet == Range(managers)

\* The wallets and tokens of the balances the exporter is told about.
WalletAddresses == {"0xA", "0xB"}
Symbols == {"ETH", "USDC"}

\* The label sets of the balance gauge: (chainName, network, symbol, isNative,
\* tokenAddress, address), where symbol decides isNative and tokenAddress.
GaugeLabels == KnownChains \X Symbols \X WalletAddresses

Unset == -1

Init ==
  /\ config \in Configs
  /\ options \in OptionValues
  /\ ctorIdx = 1
  /\ ctorStatus = "running"
  /\ managers = <<>>
  /\ handlers = [c \in ChainNames |-> {}]
  /\ startCalls = [c \in ChainNames |-> 0]
  /\ ctorTrace = <<>>
  /\ snapshot = [c \in ChainNames |-> 0]
  /\ op = "none"
  /\ phase = "idle"
  /\ stage = "none"
  /\ heightsArg = [given |-> FALSE, map |-> <<>>]
  /\ heights = <<>>
  /\ tasks = [c \in ChainNames |-> "new"]
  /\ pending = [c \in ChainNames |-> 0]
  /\ blockHeightPerChain = <<>>
  /\ result = <<>>
  /\ outcome = NoOutcome
  /\ managerCalls = {}
  /\ driverHeights = [c \in ChainNames |-> <<>>]
  /\ driverFailed = {}
  /\ snapAtCall = [c \in ChainNames |-> 0]
  /\ lock = [c \in KnownChains |-> [a \in Addresses |-> Free]]
  /\ waiters = [c \in KnownChains |-> [a \in Addresses |-> <<>>]]
  /\ pc = [k \in Callers |-> "idle"]
  /\ call = [k \in Callers |-> NoCall]
  /\ fnResult = [k \in Callers |-> "none"]
  /\ lockOutcome = [k \in Callers |-> "none"]
  /\ holds = [k \in Callers |-> {}]
  /\ releaseCalls = [k \in Callers |-> 0]
  /\ managerOps = [k \in Callers |-> {}]
  /\ metricsEnabled \in BOOLEAN
  /\ listeners = {}
  /\ emitted = <<>>
  /\ busLog = <<>>
  /\ metricsLog = <<>>
  /\ thrown = {}
  /\ stopped = {}
  /\ stopReturned = FALSE
  /\ gauge = [l \in GaugeLabels |-> Unset]
  /\ lastUpdate = [c \in KnownChains |-> Unset]
  /\ now = 1
  /\ errorCounters = [c \in KnownChains |-> 0]
  /\ counters = <<>>
  /\ received = <<>>

----------------------------------------------------------------------------
(* WalletManager.constructor: one iteration of the loop over the entries *)

\* The events in the order the constructor registers their handlers.
EventOrder == <<"error", "balances", "rebalance-started", "rebalance-finished",
                "rebalance-error", "active-wallets-count", "wallets-lock-period">>

OnSteps(chainName) ==
  [i \in 1..Len(EventOrder) |->
     [chain |-> chainName, step |-> "on", event |-> EventOrder[i]]]

RecordStep(chainName) == [chain |-> chainName, step |-> "record", event |-> ""]

StartStep(chainName) == [chain |-> chainName, step |-> "start", event |-> ""]

\* An iteration that starts the manager before wiring and recording it.
CtorStepsStartFirst(chainName) ==
  <<StartStep(chainName)>> \o OnSteps(chainName) \o <<RecordStep(chainName)>>

\* What an iteration for a valid chain does with its new manager: seven
\* chainManager.on(...), this.managers[chainName] = chainManager, and
\* chainManager.start().
CtorSteps(chainName) ==
  OnSteps(chainName) \o <<RecordStep(chainName), StartStep(chainName)>>

CtorIter ==
  /\ ctorStatus = "running"
  /\ UNCHANGED <<exporterVars, config, options, snapshot, fanVars, lockVars, metricsEnabled, eventVars>>
  /\ IF ctorIdx > Len(config)
       THEN /\ ctorStatus' = "done"
            /\ UNCHANGED <<ctorIdx, managers, handlers, startCalls, ctorTrace>>
       ELSE LET chainName == config[ctorIdx] IN
            IF ~isChain(chainName)
              THEN IF FailOnInvalidChain(options)
                     THEN /\ ctorStatus' = "failed"
                          /\ UNCHANGED <<ctorIdx, managers, handlers, startCalls, ctorTrace>>
                     ELSE /\ ctorIdx' = ctorIdx + 1
                          /\ UNCHANGED <<ctorStatus, managers, handlers, startCalls, ctorTrace>>
              ELSE /\ handlers' = [handlers EXCEPT ![chainName] = EventNames]
                   /\ managers' = Append(managers, chainName)
                   /\ startCalls' = [startCalls EXCEPT ![chainName] = @ + 1]
                   /\ ctorTrace' = ctorTrace \o CtorSteps(chainName)
                   /\ ctorIdx' = ctorIdx + 1
                   /\ UNCHANGED ctorStatus

\* The chain manager's poller publishes a new snapshot.
Refresh(c) ==
  /\ startCalls[c] > 0
  /\ ctorStatus # "running"
  /\ snapshot[c] < MaxSnapshot
  /\ snapshot' = [snapshot EXCEPT ![c] = @ + 1]
  /\ UNCHANGED <<exporterVars, ctorVars, fanVars, lockVars, metricsEnabled, eventVars>>

----------------------------------------------------------------------------
(* mapConcurrent(items, mapper, concurrency): the mappers are started in the *)
(* order of the items, at most `concurrency` of them unsettled at a time; the *)
(* call rejects with the first rejection and resolves once every mapper has  *)
(* resolved.  A mapper already started is not cancelled by a rejection.      *)

Running == {c \in ManagerSet : tasks[c] = "running"}

IndexOf(c) == CHOOSE i \in DOMAIN managers : managers[i] = c

CanStart(c, concurrency) ==
  /\ c \in ManagerSet
  /\ tasks[c] = "new"
  /\ \A j \in DOMAIN managers : j < IndexOf(c) => tasks[managers[j]] # "new"
  /\ Cardinality(Running) < concurrency

AllResolved == \A c \in ManagerSet : tasks[c] = "ok"

NewTasks == [c \in ChainNames |-> "new"]

\* obj[key] of a plain record: 0 stands for undefined.
Lookup(obj, key) == IF key \in DOMAIN obj THEN obj[key] ELSE 0

ManagerCall(c, method, arg) == [chain |-> c, method |-> method, arg |-> arg]

----------------------------------------------------------------------------
(* mapToChains, through getAllBalances and pullBalances *)

MapOps == {"getAllBalances", "pullBalances"}

MapToChainsCall(method) ==
  /\ ctorStatus = "done"
  /\ phase = "idle"
  /\ op' = method
  /\ phase' = "awaiting"
  /\ stage' = "fanout"
  /\ result' = <<>>
  /\ tasks' = NewTasks
  /\ snapAtCall' = snapshot
  /\ UNCHANGED <<exporterVars, ctorVars, lockVars, metricsEnabled, eventVars, snapshot, heightsArg, heights, pending,
                 blockHeightPerChain, outcome, managerCalls, driverHeights, driverFailed>>

\* The mapper up to its await: the method is called on the manager.
\* getBalances reads the snapshot at once.
MapToChainsStart(c) ==
  /\ op \in MapOps
  /\ stage = "fanout"
  /\ CanStart(c, DefaultConcurrency)
  /\ tasks' = [tasks EXCEPT ![c] = "running"]
  /\ pending' = [pending EXCEPT ![c] = snapshot[c]]
  /\ managerCalls' = managerCalls \cup
       {ManagerCall(c, IF op = "getAllBalances" THEN "getBalances" ELSE "pullBalances", 0)}
  /\ UNCHANGED <<exporterVars, ctorVars, lockVars, metricsEnabled, eventVars, snapshot, op, phase, stage, heightsArg, heights,
                 blockHeightPerChain, result, outcome, driverHeights, driverFailed, snapAtCall>>

\* The mapper replacing the result instead of adding its entry to it.
MapToChainsResolveOverwrites(c) ==
  /\ op \in MapOps
  /\ stage = "fanout"
  /\ tasks[c] = "running"
  /\ tasks' = [tasks EXCEPT ![c] = "ok"]
  /\ result' = (c :> (IF op = "getAllBalances" THEN pending[c] ELSE snapshot[c]))
  /\ UNCHANGED <<exporterVars, ctorVars, lockVars, metricsEnabled, eventVars, snapshot, op, phase, stage, heightsArg, heights, pending,
                 blockHeightPerChain, outcome, managerCalls, driverHeights, driverFailed, snapAtCall>>

\* The mapper after its await: result[chainName] = the method's value.
MapToChainsResolve(c) ==
  /\ op \in MapOps
  /\ stage = "fanout"
  /\ tasks[c] = "running"
  /\ tasks' = [tasks EXCEPT ![c] = "ok"]
  /\ result' = (c :> (IF op = "getAllBalances" THEN pending[c] ELSE snapshot[c]))
                 @@ result
  /\ UNCHANGED <<exporterVars, ctorVars, lockVars, metricsEnabled, eventVars, snapshot, op, phase, stage, heightsArg, heights, pending,
                 blockHeightPerChain, outcome, managerCalls, driverHeights, driverFailed, snapAtCall>>

\* manager.pullBalances() fails: the mapper rethrows the driver's error as it is.
MapToChainsReject(c) ==
  /\ op = "pullBalances"
  /\ stage = "fanout"
  /\ tasks[c] = "running"
  /\ tasks' = [tasks EXCEPT ![c] = "err"]
  /\ IF phase = "awaiting"
       THEN phase' = "threw" /\ outcome' = Threw("DriverError", "")
       ELSE UNCHANGED <<phase, outcome>>
  /\ UNCHANGED <<exporterVars, ctorVars, lockVars, metricsEnabled, eventVars, snapshot, op, stage, heightsArg, heights, pending,
                 blockHeightPerChain, result, managerCalls, driverHeights, driverFailed, snapAtCall>>

MapToChainsReturn ==
  /\ op \in MapOps
  /\ phase = "awaiting"
  /\ stage = "fanout"
  /\ AllResolved
  /\ phase' = "returned"
  /\ outcome' = Value(result)
  /\ UNCHANGED <<exporterVars, ctorVars, lockVars, metricsEnabled, eventVars, snapshot, op, stage, heightsArg, heights, tasks, pending,
                 blockHeightPerChain, result, managerCalls, driverHeights, driverFailed, snapAtCall>>

----------------------------------------------------------------------------
(* getBlockHeightForAllSupportedChains *)

GetBlockHeightsCall ==
  /\ ctorStatus = "done"
  /\ phase = "idle"
  /\ op' = "getBlockHeightForAllSupportedChains"
  /\ phase' = "awaiting"
  /\ stage' = "heights"
  /\ blockHeightPerChain' = <<>>
  /\ tasks' = NewTasks
  /\ snapAtCall' = snapshot
  /\ UNCHANGED <<exporterVars, ctorVars, lockVars, metricsEnabled, eventVars, snapshot, heightsArg, heights, pending, result, outcome,
                 managerCalls, driverHeights, driverFailed>>

\* requiredConcurrency is the number of managers.
GetBlockHeightsStart(c) ==
  /\ stage = "heights"
  /\ CanStart(c, Len(managers))
  /\ tasks' = [tasks EXCEPT ![c] = "running"]
  /\ managerCalls' = managerCalls \cup {ManagerCall(c, "getBlockHeight", 0)}
  /\ UNCHANGED <<exporterVars, ctorVars, lockVars, metricsEnabled, eventVars, snapshot, op, phase, stage, heightsArg, heights, pending,
                 blockHeightPerChain, result, outcome, driverHeights, driverFailed, snapAtCall>>

\* The spread without the accumulator read after the await.
GetBlockHeightsResolveOverwrites(c, blockHeight) ==
  /\ stage = "heights"
  /\ tasks[c] = "running"
  /\ tasks' = [tasks EXCEPT ![c] = "ok"]
  /\ blockHeightPerChain' = (c :> blockHeight)
  /\ driverHeights' = [driverHeights EXCEPT ![c] = <<blockHeight>>]
  /\ UNCHANGED <<exporterVars, ctorVars, lockVars, metricsEnabled, eventVars, snapshot, op, phase, stage, heightsArg, heights, pending,
                 result, outcome, managerCalls, driverFailed, snapAtCall>>

\* manager.getBlockHeight() answers: the accumulator is read and replaced in
\* the one synchronous step after the await.
GetBlockHeightsResolve(c, blockHeight) ==
  /\ stage = "heights"
  /\ tasks[c] = "running"
  /\ tasks' = [tasks EXCEPT ![c] = "ok"]
  /\ blockHeightPerChain' = (c :> blockHeight) @@ blockHeightPerChain
  /\ driverHeights' = [driverHeights EXCEPT ![c] = <<blockHeight>>]
  /\ UNCHANGED <<exporterVars, ctorVars, lockVars, metricsEnabled, eventVars, snapshot, op, phase, stage, heightsArg, heights, pending,
                 result, outcome, managerCalls, driverFailed, snapAtCall>>

\* The catch block that swallows the error.
GetBlockHeightsRejectSwallowed(c) ==
  /\ stage = "heights"
  /\ tasks[c] = "running"
  /\ tasks' = [tasks EXCEPT ![c] = "ok"]
  /\ driverFailed' = driverFailed \cup {c}
  /\ UNCHANGED <<exporterVars, ctorVars, lockVars, metricsEnabled, eventVars, snapshot, op, phase, stage, heightsArg, heights, pending,
                 blockHeightPerChain, result, outcome, managerCalls, driverHeights,
                 snapAtCall>>

\* manager.getBlockHeight() fails: the mapper throws an error naming the chain,
\* which rejects the whole call (and its caller pullBalancesAtBlockHeight).
GetBlockHeightsReject(c) ==
  /\ stage = "heights"
  /\ tasks[c] = "running"
  /\ tasks' = [tasks EXCEPT ![c] = "err"]
  /\ IF phase = "awaiting"
       THEN phase' = "threw" /\ outcome' = Threw("BlockHeightUnavailable", c)
       ELSE UNCHANGED <<phase, outcome>>
  /\ driverFailed' = driverFailed \cup {c}
  /\ UNCHANGED <<exporterVars, ctorVars, lockVars, metricsEnabled, eventVars, snapshot, op, stage, heightsArg, heights, pending,
                 blockHeightPerChain, result, managerCalls, driverHeights, snapAtCall>>

\* Every mapper resolved: the accumulator is returned; within
\* pullBalancesAtBlockHeight it becomes blockHeightPerChain and the fanout begins.
GetBlockHeightsReturn ==
  /\ phase = "awaiting"
  /\ stage = "heights"
  /\ AllResolved
  /\ IF op = "getBlockHeightForAllSupportedChains"
       THEN /\ phase' = "returned"
            /\ outcome' = Value(blockHeightPerChain)
            /\ UNCHANGED <<stage, heights, tasks, result>>
       ELSE /\ stage' = "fanout"
            /\ heights' = blockHeightPerChain
            /\ tasks' = NewTasks
            /\ result' = <<>>
            /\ UNCHANGED <<phase, outcome>>
  /\ UNCHANGED <<exporterVars, ctorVars, lockVars, metricsEnabled, eventVars, snapshot, op, heightsArg, pending, blockHeightPerChain,
                 managerCalls, driverHeights, driverFailed, snapAtCall>>

----------------------------------------------------------------------------
(* pullBalancesAtBlockHeight *)

\* blockHeightByChain?: absent, or a record from chain keys to heights.
HeightArgs ==
  {[given |-> FALSE, map |-> <<>>]} \cup
  {[given |-> TRUE, map |-> m] : m \in UNION {[S -> Heights] : S \in SUBSET ChainNames}}

\* The validation asking whether the key is a chain name, not whether it has a
\* manager.
UnknownKeysByIsChain(blockHeightByChain) ==
  {chain \in DOMAIN blockHeightByChain : ~isChain(chain)}

\* validateBlockHeightByChain: the keys without a manager.
UnknownKeys(blockHeightByChain) ==
  {chain \in DOMAIN blockHeightByChain : chain \notin ManagerSet}

PullBalancesAtBlockHeightCall(arg) ==
  /\ ctorStatus = "done"
  /\ phase = "idle"
  /\ op' = "pullBalancesAtBlockHeight"
  /\ heightsArg' = arg
  /\ result' = <<>>
  /\ tasks' = NewTasks
  /\ snapAtCall' = snapshot
  /\ blockHeightPerChain' = <<>>
  /\ IF arg.given /\ UnknownKeys(arg.map) # {}
       THEN /\ phase' = "threw"
            /\ outcome' = Threw("UnknownChain", CHOOSE k \in UnknownKeys(arg.map) : TRUE)
            /\ UNCHANGED <<stage, heights>>
       ELSE /\ phase' = "awaiting"
            /\ stage' = IF arg.given THEN "fanout" ELSE "heights"
            /\ heights' = arg.map
            /\ UNCHANGED outcome
  /\ UNCHANGED <<exporterVars, ctorVars, lockVars, metricsEnabled, eventVars, snapshot, pending, managerCalls, driverHeights, driverFailed>>

\* The mapper up to its await: every manager is queried, with
\* blockHeightPerChain[chainName].
PullBalancesAtBlockHeightStart(c) ==
  /\ op = "pullBalancesAtBlockHeight"
  /\ stage = "fanout"
  /\ CanStart(c, DefaultConcurrency)
  /\ tasks' = [tasks EXCEPT ![c] = "running"]
  /\ pending' = [pending EXCEPT ![c] = Lookup(heights, c)]
  /\ managerCalls' = managerCalls \cup
       {ManagerCall(c, "pullBalancesAtBlockHeight", Lookup(heights, c))}
  /\ UNCHANGED <<exporterVars, ctorVars, lockVars, metricsEnabled, eventVars, snapshot, op, phase, stage, heightsArg, heights,
                 blockHeightPerChain, result, outcome, driverHeights, driverFailed, snapAtCall>>

\* balances[chainName] = the balances at the height the manager was given.
PullBalancesAtBlockHeightResolve(c) ==
  /\ op = "pullBalancesAtBlockHeight"
  /\ stage = "fanout"
  /\ tasks[c] = "running"
  /\ tasks' = [tasks EXCEPT ![c] = "ok"]
  /\ result' = (c :> pending[c]) @@ result
  /\ UNCHANGED <<exporterVars, ctorVars, lockVars, metricsEnabled, eventVars, snapshot, op, phase, stage, heightsArg, heights, pending,
                 blockHeightPerChain, outcome, managerCalls, driverHeights, driverFailed, snapAtCall>>

PullBalancesAtBlockHeightReject(c) ==
  /\ op = "pullBalancesAtBlockHeight"
  /\ stage = "fanout"
  /\ tasks[c] = "running"
  /\ tasks' = [tasks EXCEPT ![c] = "err"]
  /\ IF phase = "awaiting"
       THEN phase' = "threw" /\ outcome' = Threw("DriverError", "")
       ELSE UNCHANGED <<phase, outcome>>
  /\ UNCHANGED <<exporterVars, ctorVars, lockVars, metricsEnabled, eventVars, snapshot, op, stage, heightsArg, heights, pending,
                 blockHeightPerChain, result, managerCalls, driverHeights, driverFailed, snapAtCall>>

PullBalancesAtBlockHeightReturn ==
  /\ op = "pullBalancesAtBlockHeight"
  /\ phase = "awaiting"
  /\ stage = "fanout"
  /\ AllResolved
  /\ phase' = "returned"
  /\ outcome' = Value(result)
  /\ UNCHANGED <<exporterVars, ctorVars, lockVars, metricsEnabled, eventVars, snapshot, op, stage, heightsArg, heights, tasks, pending,
                 blockHeightPerChain, result, managerCalls, driverHeights, driverFailed, snapAtCall>>

----------------------------------------------------------------------------
(* The lock registry of a chain manager (ChainWalletManager.acquireLock and  *)
(* releaseLock over the registry of section 4.D).  An entry names its holder; *)
(* releaseLock(address) carries no holder token, so the manager releases the *)
(* entry the address has, and fails with NotHeld when it has none.  A release *)
(* or an expiry hands the address to the first waiter.                       *)

\* The first waiter of an address, 0 when nobody waits.
NextWaiter(c, a) == IF waiters[c][a] = <<>> THEN 0 ELSE Head(waiters[c][a])

\* The registry after the entry of (c, a) is removed.
LockAfterRemoval(c, a) ==
  LET w == NextWaiter(c, a) IN
  [lock EXCEPT ![c][a] = IF w = 0 THEN Free
                          ELSE [holder |-> w, lease |-> call[w].lease]]

WaitersAfterRemoval(c, a) ==
  IF waiters[c][a] = <<>> THEN waiters
  ELSE [waiters EXCEPT ![c][a] = Tail(@)]

\* WalletManager.acquireLock after chainManager.acquireLock resolved for
\* caller w: the wallet is returned, and withWallet goes on to call fn.
PcAfterGrant(p, w) ==
  IF w = 0 THEN p
  ELSE [p EXCEPT ![w] = IF call[w].api = "withWallet" THEN "fn" ELSE "returned"]

OutcomeAfterGrant(o, w) ==
  IF w = 0 \/ call[w].api = "withWallet" THEN o ELSE [o EXCEPT ![w] = "wallet"]

HoldsAfterGrant(h, w, c, a) ==
  IF w = 0 THEN h ELSE [h EXCEPT ![w] = @ \cup {<<c, a>>}]

----------------------------------------------------------------------------
(* WalletManager.acquireLock, called directly or by withWallet *)

\* The lookup accepting every chain name isChain knows.
HasManagerIfKnownChain(chainName) == chainName \in KnownChains

\* const chainManager = this.managers[chainName]; if (!chainManager) throw
HasManager(chainName) == chainName \in ManagerSet

\* withWallet with the acquisition inside its try block: a failed acquisition
\* runs the finally block.
AfterAcquireFailureInTry(api) == IF api = "withWallet" THEN "fnDone" ELSE "returned"

\* Where a call goes when acquireLock throws: withWallet awaits acquireLock
\* before its try block, so the error leaves the call.
AfterAcquireFailure(api) == "returned"

AcquireLock(k, api, chainName, address, lease, timeout) ==
  /\ ctorStatus = "done"
  /\ pc[k] = "idle"
  /\ call' = [call EXCEPT ![k] = [api |-> api, chain |-> chainName,
                                   address |-> address, lease |-> lease,
                                   timeout |-> timeout]]
  /\ fnResult' = [fnResult EXCEPT ![k] = "none"]
  /\ releaseCalls' = [releaseCalls EXCEPT ![k] = 0]
  /\ managerOps' = [managerOps EXCEPT ![k] = IF HasManager(chainName)
                                                THEN {"acquireLock"} ELSE {}]
  /\ IF ~HasManager(chainName)
       THEN /\ pc' = [pc EXCEPT ![k] = AfterAcquireFailure(api)]
            /\ lockOutcome' = [lockOutcome EXCEPT ![k] = "UnknownChain"]
            /\ UNCHANGED <<lock, waiters, holds>>
       ELSE IF lock[chainName][address].holder = 0
         THEN /\ lock' = [lock EXCEPT ![chainName][address] =
                            [holder |-> k, lease |-> lease]]
              /\ pc' = [pc EXCEPT ![k] = IF api = "withWallet" THEN "fn" ELSE "returned"]
              /\ lockOutcome' = [lockOutcome EXCEPT ![k] =
                                   IF api = "withWallet" THEN "none" ELSE "wallet"]
              /\ holds' = [holds EXCEPT ![k] = @ \cup {<<chainName, address>>}]
              /\ UNCHANGED waiters
         ELSE /\ waiters' = [waiters EXCEPT ![chainName][address] = Append(@, k)]
              /\ pc' = [pc EXCEPT ![k] = "acquiring"]
              /\ lockOutcome' = [lockOutcome EXCEPT ![k] = "none"]
              /\ UNCHANGED <<lock, holds>>
  /\ UNCHANGED <<exporterVars, ctorVars, metricsEnabled, eventVars, snapshot, fanVars>>

\* waitToAcquireTimeout elapses: the waiter leaves the queue and the call fails.
AcquireTimeout(k) ==
  /\ pc[k] = "acquiring"
  /\ call[k].timeout
  /\ waiters' = [waiters EXCEPT ![call[k].chain][call[k].address] =
                   SelectSeq(@, LAMBDA w : w # k)]
  /\ pc' = [pc EXCEPT ![k] = AfterAcquireFailure(call[k].api)]
  /\ lockOutcome' = [lockOutcome EXCEPT ![k] = "AcquireTimeout"]
  /\ UNCHANGED <<exporterVars, ctorVars, metricsEnabled, eventVars, snapshot, fanVars, lock, call, fnResult, holds, releaseCalls,
                 managerOps>>

\* The lease deadline passes: the registry frees the address by itself.
LeaseExpire(c, a) ==
  /\ lock[c][a].holder # 0
  /\ lock[c][a].lease
  /\ lock' = LockAfterRemoval(c, a)
  /\ waiters' = WaitersAfterRemoval(c, a)
  /\ pc' = PcAfterGrant(pc, NextWaiter(c, a))
  /\ lockOutcome' = OutcomeAfterGrant(lockOutcome, NextWaiter(c, a))
  /\ holds' = HoldsAfterGrant([holds EXCEPT ![lock[c][a].holder] = @ \ {<<c, a>>}],
                              NextWaiter(c, a), c, a)
  /\ UNCHANGED <<exporterVars, ctorVars, metricsEnabled, eventVars, snapshot, fanVars, call, fnResult, releaseCalls,
                 managerOps>>

----------------------------------------------------------------------------
(* WalletManager.releaseLock *)

ReleaseLock(k, chainName, address) ==
  /\ ctorStatus = "done"
  /\ pc[k] = "idle"
  /\ call' = [call EXCEPT ![k] = [api |-> "releaseLock", chain |-> chainName,
                                   address |-> address, lease |-> FALSE,
                                   timeout |-> FALSE]]
  /\ managerOps' = [managerOps EXCEPT ![k] = IF HasManager(chainName)
                                                THEN {"releaseLock"} ELSE {}]
  /\ IF ~HasManager(chainName)
       THEN /\ pc' = [pc EXCEPT ![k] = "returned"]
            /\ lockOutcome' = [lockOutcome EXCEPT ![k] = "UnknownChain"]
            /\ UNCHANGED <<lock, waiters, holds>>
       ELSE IF lock[chainName][address].holder = 0
         THEN /\ pc' = [pc EXCEPT ![k] = "returned"]
              /\ lockOutcome' = [lockOutcome EXCEPT ![k] = "NotHeld"]
              /\ holds' = [holds EXCEPT ![k] = @ \ {<<chainName, address>>}]
              /\ UNCHANGED <<lock, waiters>>
         ELSE LET w == NextWaiter(chainName, address) IN
              /\ lock' = LockAfterRemoval(chainName, address)
              /\ waiters' = WaitersAfterRemoval(chainName, address)
              /\ pc' = PcAfterGrant([pc EXCEPT ![k] = "returned"], w)
              /\ lockOutcome' = OutcomeAfterGrant([lockOutcome EXCEPT ![k] = "ok"], w)
              /\ holds' = HoldsAfterGrant(
                             [holds EXCEPT ![k] = @ \ {<<chainName, address>>}],
                             w, chainName, address)
  /\ UNCHANGED <<exporterVars, ctorVars, metricsEnabled, eventVars, snapshot, fanVars, fnResult, releaseCalls>>

----------------------------------------------------------------------------
(* WalletManager.withWallet *)

\* fn(wallet) completes, normally or by throwing X.
FnCompletes(k, how) ==
  /\ pc[k] = "fn"
  /\ pc' = [pc EXCEPT ![k] = "fnDone"]
  /\ fnResult' = [fnResult EXCEPT ![k] = how]
  /\ UNCHANGED <<exporterVars, ctorVars, metricsEnabled, eventVars, snapshot, fanVars, lock, waiters, call, lockOutcome, holds,
                 releaseCalls, managerOps>>

\* The finally block: releaseLock(chainName, wallet.address) is awaited; its
\* error, if any, replaces what the try block completed with.
WithWalletRelease(k) ==
  LET c == call[k].chain
      a == call[k].address
      w == NextWaiter(c, a)
      held == lock[c][a].holder # 0
      mine == [holds EXCEPT ![k] = @ \ {<<c, a>>}]
      done == [pc EXCEPT ![k] = "returned"]
      ended == IF ~held THEN "NotHeld"
                ELSE IF fnResult[k] = "throw" THEN "X" ELSE "ok"
  IN
  /\ pc[k] = "fnDone"
  /\ releaseCalls' = [releaseCalls EXCEPT ![k] = @ + 1]
  /\ managerOps' = [managerOps EXCEPT ![k] = IF HasManager(c)
                                                THEN @ \cup {"releaseLock"} ELSE @]
  /\ IF held
       THEN /\ lock' = LockAfterRemoval(c, a)
            /\ waiters' = WaitersAfterRemoval(c, a)
            /\ pc' = PcAfterGrant(done, w)
            /\ lockOutcome' = OutcomeAfterGrant([lockOutcome EXCEPT ![k] = ended], w)
            /\ holds' = HoldsAfterGrant(mine, w, c, a)
       ELSE /\ pc' = done
            /\ lockOutcome' = [lockOutcome EXCEPT ![k] = ended]
            /\ holds' = mine
            /\ UNCHANGED <<lock, waiters>>
  /\ UNCHANGED <<exporterVars, ctorVars, metricsEnabled, eventVars, snapshot, fanVars, call, fnResult>>

\* The caller takes the result of its call and is ready for another.
CallerContinues(k) ==
  /\ pc[k] = "returned"
  /\ pc' = [pc EXCEPT ![k] = "idle"]
  /\ call' = [call EXCEPT ![k] = NoCall]
  /\ fnResult' = [fnResult EXCEPT ![k] = "none"]
  /\ lockOutcome' = [lockOutcome EXCEPT ![k] = "none"]
  /\ releaseCalls' = [releaseCalls EXCEPT ![k] = 0]
  /\ managerOps' = [managerOps EXCEPT ![k] = {}]
  /\ UNCHANGED <<exporterVars, ctorVars, metricsEnabled, eventVars, snapshot, fanVars, lock, waiters, holds>>

----------------------------------------------------------------------------
(* WalletManager.getBlockHeight and WalletManager.getChainBalances *)

\* A single-chain query: the manager is looked up, the call throws when there
\* is none, and otherwise returns what the manager's method returns.
SingleChainQuery(k, api, method, chainName) ==
  /\ ctorStatus = "done"
  /\ pc[k] = "idle"
  /\ call' = [call EXCEPT ![k] = [api |-> api, chain |-> chainName,
                                   address |-> "", lease |-> FALSE,
                                   timeout |-> FALSE]]
  /\ pc' = [pc EXCEPT ![k] = "returned"]
  /\ managerOps' = [managerOps EXCEPT ![k] = IF HasManager(chainName)
                                                THEN {method} ELSE {}]
  /\ lockOutcome' = [lockOutcome EXCEPT ![k] = IF HasManager(chainName)
                                                  THEN "value" ELSE "UnknownChain"]
  /\ UNCHANGED <<exporterVars, ctorVars, metricsEnabled, eventVars, snapshot, fanVars, lock, waiters,
                 holds, fnResult, releaseCalls>>

GetBlockHeight(k, chainName) ==
  SingleChainQuery(k, "getBlockHeight", "getBlockHeight", chainName)

GetChainBalances(k, chainName) ==
  SingleChainQuery(k, "getChainBalances", "getBalances", chainName)

NextLock ==
  \/ CtorIter
  \/ \E k \in Callers, api \in {"acquireLock", "withWallet"}, c \in KnownChains,
        a \in Addresses, lease \in BOOLEAN, timeout \in BOOLEAN :
        AcquireLock(k, api, c, a, lease, timeout)
  \/ \E k \in Callers : AcquireTimeout(k)
  \/ \E c \in KnownChains, a \in Addresses : LeaseExpire(c, a)
  \/ \E k \in Callers, c \in KnownChains, a \in Addresses : ReleaseLock(k, c, a)
  \/ \E k \in Callers, how \in {"ok", "throw"} : FnCompletes(k, how)
  \/ \E k \in Callers : WithWalletRelease(k)
  \/ \E k \in Callers : CallerContinues(k)
  \/ \E k \in Callers, c \in KnownChains : GetBlockHeight(k, c)
  \/ \E k \in Callers, c \in KnownChains : GetChainBalances(k, c)

\* The lock API on an orchestrator built for one chain.
InitLock == Init /\ config = <<"ethereum">> /\ options = "false" /\ ~metricsEnabled

SpecLock == InitLock /\ [][NextLock]_vars

----------------------------------------------------------------------------
(* The event wiring: the handlers the constructor registers on a chain       *)
(* manager, and on() of the orchestrator's own emitter.                      *)

\* The handlers re-emitting only the balances event.
ForwardedOnlyBalances == {"balances"}

\* The manager events whose handler emits on this.emitter.
Forwarded == {"balances", "error"}

\* The update a handler makes on this.exporter, "" when it makes none.
ExporterUpdate(event) ==
  CASE event = "balances" -> "updateBalances"
    [] event = "rebalance-finished" -> "updateRebalanceSuccess"
    [] event = "rebalance-error" -> "updateRebalanceFailure"
    [] event = "active-wallets-count" -> "updateActiveWallets"
    [] event = "wallets-lock-period" -> "updateWalletsLockPeriod"
    [] OTHER -> ""

\* WalletManager.on(event, listener).
On(event) ==
  /\ ctorStatus = "done"
  /\ event \notin listeners
  /\ Cardinality(listeners) < MaxListeners
  /\ listeners' = listeners \cup {event}
  /\ UNCHANGED <<exporterVars, ctorVars, snapshot, fanVars, lockVars, metricsEnabled, emitted,
                 busLog, metricsLog, thrown, stopped, stopReturned>>

\* chainConfig.network || getDefaultNetwork(chainName): the configurations
\* here name no network, so each chain has its default one.
Network(chainName) ==
  IF chainName = "ethereum" THEN "mainnet" ELSE "mainnet-beta"

\* The chain the handlers of every manager would name if they shared the
\* variable of the loop: the last chain constructed.
HandlerChainLast(c) == managers[Len(managers)]

\* The chainName a handler names: the one of the loop iteration that
\* registered it on its manager.
HandlerChain(c) == c

\* The balances events manager c has emitted so far: its snapshots are
\* numbered in the order it publishes them.
BalancesSoFar(c) ==
  Cardinality({i \in DOMAIN emitted :
                 emitted[i].chain = c /\ emitted[i].event = "balances"})

\* A started chain manager emits an event: the handler registered for it by
\* the constructor runs.  A balances event carries the new and the previous
\* snapshot.  An "error" emitted on an emitter without a listener for it is
\* thrown by the emitter.
ManagerEmit(c, event) ==
  LET n == Len(emitted) + 1
      new == IF event = "balances" THEN BalancesSoFar(c) + 1 ELSE 0
      prev == IF event = "balances" THEN BalancesSoFar(c) ELSE 0
  IN
  /\ ctorStatus # "running"
  /\ startCalls[c] > 0
  /\ c \notin stopped
  /\ event \in handlers[c]
  /\ Len(emitted) < MaxEvents
  /\ emitted' = Append(emitted, [chain |-> c, event |-> event, n |-> n,
                                  new |-> new, prev |-> prev,
                                  subscribed |-> event \in listeners])
  /\ metricsLog' = IF metricsEnabled /\ ExporterUpdate(event) # ""
                     THEN Append(metricsLog, [update |-> ExporterUpdate(event),
                                              chain |-> HandlerChain(c), n |-> n])
                     ELSE metricsLog
  /\ busLog' = IF event \in Forwarded /\ event \in listeners
                 THEN Append(busLog, [event |-> event, chain |-> HandlerChain(c),
                                      network |-> Network(HandlerChain(c)),
                                      n |-> n, new |-> new, prev |-> prev])
                 ELSE busLog
  /\ thrown' = IF event \in Forwarded /\ event = "error" /\ event \notin listeners
                 THEN thrown \cup {n}
                 ELSE thrown
  /\ UNCHANGED <<exporterVars, ctorVars, snapshot, fanVars, lockVars, metricsEnabled, listeners,
                 stopped, stopReturned>>

\* stop() that stops only the first manager.
StopOnlyFirst ==
  /\ ctorStatus = "done"
  /\ ~stopReturned
  /\ stopped' = IF managers = <<>> THEN stopped ELSE stopped \cup {managers[1]}
  /\ stopReturned' = TRUE
  /\ UNCHANGED <<exporterVars, ctorVars, snapshot, fanVars, lockVars, metricsEnabled, listeners,
                 emitted, busLog, metricsLog, thrown>>

\* WalletManager.stop(): stop() is called on every manager of this.managers.
\* A stopped chain manager emits no further event.
Stop ==
  /\ ctorStatus = "done"
  /\ ~stopReturned
  /\ stopped' = stopped \cup ManagerSet
  /\ stopReturned' = TRUE
  /\ UNCHANGED <<exporterVars, ctorVars, snapshot, fanVars, lockVars, metricsEnabled, listeners,
                 emitted, busLog, metricsLog, thrown>>

NextEvents ==
  \/ CtorIter
  \/ Stop
  \/ \E event \in EventNames : On(event)
  \/ \E c \in KnownChains, event \in EventNames : ManagerEmit(c, event)

\* The events of an orchestrator built for two chains.
InitEvents == Init /\ config = <<"ethereum", "solana">> /\ options = "false"

SpecEvents == InitEvents /\ [][NextEvents]_vars

----------------------------------------------------------------------------
----------------------------------------------------------------------------
(* MultiWalletExporter: the handlers its constructor registers for the       *)
(* balances and error events of the watcher it extends.                      *)

\* Balances in base units of a token with one decimal, and formattedBalance,
\* their decimal string.
RawBalances == {5, 20}
FormatUnits(raw) == IF raw = 5 THEN "0.5" ELSE "2.0"

\* parseFloat of a decimal string, in tenths.
ParseFloat(str) == IF str = "0.5" THEN 5 ELSE IF str = "2.0" THEN 20 ELSE Unset

WalletBalance(address, symbol, raw) ==
  [address |-> address, symbol |-> symbol, rawBalance |-> raw,
   formattedBalance |-> FormatUnits(raw)]

\* The balances of one address: its native balance, and for the first address
\* possibly one token balance.
BalancesOf(address) ==
  LET native == {{WalletBalance(address, "ETH", r)} : r \in RawBalances}
      token == {{}} \cup {{WalletBalance(address, "USDC", r)} : r \in RawBalances}
  IN IF address = "0xA" THEN {n \cup t : n \in native, t \in token} ELSE native

\* WalletBalancesByAddress
BalancesByAddress ==
  {f \in [WalletAddresses -> UNION {BalancesOf(a) : a \in WalletAddresses}] :
     \A a \in WalletAddresses : f[a] \in BalancesOf(a)}

\* The handler updating the balances of the first address only.
EntriesOfFirstAddress(balancesByAddress) == balancesByAddress["0xA"]

\* Object.values(balancesByAddress).forEach(balances => balances.forEach(...)):
\* the balance entries updateBalanceMetrics is run for.
EntriesUpdated(balancesByAddress) ==
  UNION {balancesByAddress[a] : a \in DOMAIN balancesByAddress}

\* updateBalanceMetrics: the gauge after .labels(...).set(parseFloat(...)) for
\* each entry.
UpdateBalanceMetrics(g, chainName, entries) ==
  [l \in GaugeLabels |->
     IF \E b \in entries : l = <<chainName, b.symbol, b.address>>
       THEN ParseFloat((CHOOSE b \in entries :
                          l = <<chainName, b.symbol, b.address>>).formattedBalance)
       ELSE g[l]]

\* The handler of 'balances'.
ExporterOnBalances(chainName, balancesByAddress) ==
  /\ Len(received) < MaxEvents
  /\ lastUpdate' = [lastUpdate EXCEPT ![chainName] = now]
  /\ gauge' = UpdateBalanceMetrics(gauge, chainName, EntriesUpdated(balancesByAddress))
  /\ received' = Append(received, [event |-> "balances", chain |-> chainName,
                                    balances |-> balancesByAddress, time |-> now])
  /\ UNCHANGED <<ctorVars, snapshot, fanVars, lockVars, metricsEnabled, eventVars,
                 now, errorCounters, counters>>

\* chainName in this.errorCounters: the in operator looks up a property of
\* the Map object, which has the properties of Map.prototype and no chain.
MapProperties == {"size", "get", "set", "has", "delete", "clear", "forEach",
                  "entries", "keys", "values", "constructor"}
InErrorCounters(chainName) == chainName \in MapProperties

\* The handler of 'error'.  A counter is created unless the in test holds;
\* creating a counter whose name the registry already has either replaces
\* the one of the map or throws before the map is written.
ExporterOnError(chainName, duplicate) ==
  LET create == ~InErrorCounters(chainName)
      registered == \E i \in DOMAIN counters : counters[i].name = chainName
      throws == create /\ registered /\ duplicate = "throws"
      created == IF create /\ ~throws
                   THEN Append(counters, [name |-> chainName, value |-> 0])
                   ELSE counters
      index == IF create /\ ~throws THEN Len(created) ELSE errorCounters[chainName]
  IN
  /\ Len(received) < MaxEvents
  /\ errorCounters' = [errorCounters EXCEPT ![chainName] = index]
  /\ counters' = IF throws \/ index = 0 THEN created
                   ELSE [created EXCEPT ![index].value = @ + 1]
  /\ received' = Append(received, [event |-> "error", chain |-> chainName,
                                    balances |-> <<>>, time |-> now])
  /\ UNCHANGED <<ctorVars, snapshot, fanVars, lockVars, metricsEnabled, eventVars,
                 now, gauge, lastUpdate>>

\* Time passes.
Tick ==
  /\ now < MaxTime
  /\ now' = now + 1
  /\ UNCHANGED <<ctorVars, snapshot, fanVars, lockVars, metricsEnabled, eventVars,
                 gauge, lastUpdate, errorCounters, counters, received>>

NextExporter ==
  \/ \E c \in KnownChains, b \in BalancesByAddress : ExporterOnBalances(c, b)
  \/ \E c \in KnownChains, d \in {"replaces", "throws"} : ExporterOnError(c, d)
  \/ Tick

\* An exporter on its own, before any event.
InitExporter == Init /\ config = <<>> /\ options = "undefined" /\ ~metricsEnabled

SpecExporter == InitExporter /\ [][NextExporter]_vars

----------------------------------------------------------------------------
Next ==
  \/ CtorIter
  \/ \E c \in ChainNames : Refresh(c)
  \/ \E method \in MapOps : MapToChainsCall(method)
  \/ \E c \in ChainNames : MapToChainsStart(c)
  \/ \E c \in ChainNames : MapToChainsResolve(c)
  \/ \E c \in ChainNames : MapToChainsReject(c)
  \/ MapToChainsReturn
  \/ GetBlockHeightsCall
  \/ \E c \in ChainNames : GetBlockHeightsStart(c)
  \/ \E c \in ChainNames, h \in Heights : GetBlockHeightsResolve(c, h)
  \/ \E c \in ChainNames : GetBlockHeightsReject(c)
  \/ GetBlockHeightsReturn
  \/ \E arg \in HeightArgs : PullBalancesAtBlockHeightCall(arg)
  \/ \E c \in ChainNames : PullBalancesAtBlockHeightStart(c)
  \/ \E c \in ChainNames : PullBalancesAtBlockHeightResolve(c)
  \/ \E c \in ChainNames : PullBalancesAtBlockHeightReject(c)
  \/ PullBalancesAtBlockHeightReturn

\* Construction and the fanout operations, without the metrics exporter.
InitFanout == Init /\ ~metricsEnabled

Spec == InitFanout /\ [][Next]_vars

----------------------------------------------------------------------------
(* Properties of construction and of the fanout operations *)

\* The configured chain names that pass chain validation.
ValidConfigured == {config[i] : i \in {j \in DOMAIN config : config[j] \in KnownChains}}

\* C3: getAllBalances() resolves to a mapping whose keys are exactly the
\* configured chain names that passed validation, each value a snapshot its
\* manager held during the call (not older than the one at the call, not newer
\* than the current one).
C3_FanoutCompleteness ==
  (op = "getAllBalances" /\ phase = "returned") =>
     /\ outcome.kind = "value"
     /\ DOMAIN outcome.value = ValidConfigured
     /\ \A c \in DOMAIN outcome.value :
          snapAtCall[c] <= outcome.value[c] /\ outcome.value[c] <= snapshot[c]

C3_Witness ==
  /\ op = "getAllBalances" /\ phase = "returned"
  /\ "bogus" \in Range(config)
  /\ DOMAIN outcome.value = KnownChains
  /\ \E c \in KnownChains : outcome.value[c] = 1

\* C4: when every getBlockHeight succeeds, getBlockHeightForAllSupportedChains
\* returns exactly one height per constructed manager, the one its driver
\* answered, whatever the order of the completions.
C4_AllHeights ==
  (op = "getBlockHeightForAllSupportedChains" /\ phase = "returned"
     /\ driverFailed = {}) =>
     /\ outcome.kind = "value"
     /\ DOMAIN outcome.value = ManagerSet
     /\ \A c \in ManagerSet : driverHeights[c] = <<outcome.value[c]>>

C4_Witness ==
  /\ op = "getBlockHeightForAllSupportedChains" /\ phase = "returned"
  /\ managers = <<"ethereum", "solana">>
  /\ outcome.value["ethereum"] = 2
  /\ outcome.value["solana"] = 1

\* C5: when a chain's getBlockHeight fails, getBlockHeightForAllSupportedChains
\* has failed with an error naming a failing chain and has returned no mapping.
C5_NoPartialResult ==
  (op = "getBlockHeightForAllSupportedChains" /\ driverFailed # {}) =>
     /\ phase = "threw"
     /\ outcome.kind = "error"
     /\ outcome.error = "BlockHeightUnavailable"
     /\ outcome.chain \in driverFailed

C5_Witness ==
  /\ op = "getBlockHeightForAllSupportedChains" /\ phase = "threw"
  /\ driverFailed = {"solana"}
  /\ DOMAIN blockHeightPerChain = {"ethereum"}

\* C6: pullBalancesAtBlockHeight given a key without a manager fails before any
\* manager is called; given no heights, no manager is asked for balances before
\* getBlockHeightForAllSupportedChains has completed with every chain's height.
C6_ValidatedBeforeFanout ==
  op = "pullBalancesAtBlockHeight" =>
     /\ (heightsArg.given /\ \E k \in DOMAIN heightsArg.map : k \notin ManagerSet) =>
          (phase = "threw" /\ outcome.error = "UnknownChain" /\ managerCalls = {})
     /\ (~heightsArg.given /\ \E mc \in managerCalls :
                                mc.method = "pullBalancesAtBlockHeight") =>
          /\ stage = "fanout"
          /\ driverFailed = {}
          /\ DOMAIN heights = ManagerSet
          /\ \A c \in ManagerSet : driverHeights[c] = <<heights[c]>>

C6_Witness ==
  /\ op = "pullBalancesAtBlockHeight" /\ phase = "threw"
  /\ managers = <<"ethereum">>
  /\ heightsArg.given
  /\ DOMAIN heightsArg.map = {"ethereum", "solana"}

\* The height recorded for a chain: the supplied one, or the one
\* getBlockHeightForAllSupportedChains got from its driver.
RecordedHeight(c) ==
  IF heightsArg.given
    THEN (IF c \in DOMAIN heightsArg.map THEN <<heightsArg.map[c]>> ELSE <<>>)
    ELSE driverHeights[c]

\* C7: every manager pullBalancesAtBlockHeight queries is queried with the
\* height recorded for its own chain, never with an absent height.
C7_QueriedAtOwnHeight ==
  \A mc \in managerCalls :
     mc.method = "pullBalancesAtBlockHeight" =>
        RecordedHeight(mc.chain) = <<mc.arg>>

\* C8: with a chain name outside the known set, construction fails unless
\* failOnInvalidChain is explicitly false, and then every valid chain has a
\* manager.
C8_FailsByDefault ==
  (ctorStatus # "running" /\ "bogus" \in Range(config)) =>
     IF options = "false"
       THEN ctorStatus = "done" /\ ManagerSet = ValidConfigured
       ELSE ctorStatus = "failed"

\* C9: when construction fails on an unknown chain name, no manager has been
\* constructed and started.
C9_NothingStartedOnFailure ==
  ctorStatus = "failed" =>
     (managers = <<>> /\ \A c \in ChainNames : startCalls[c] = 0)

----------------------------------------------------------------------------
(* Properties of the lock API *)

\* C1: once withWallet's acquireLock has returned a wallet, releaseLock is
\* called for it exactly once and only after fn has completed; when fn throws
\* X, withWallet fails with X, and the caller no longer holds the wallet.
C1_ReleasedOnceAndPropagatesX ==
  \A k \in Callers :
     /\ releaseCalls[k] > 0 => fnResult[k] # "none"
     /\ (pc[k] = "returned" /\ call[k].api = "withWallet" /\ fnResult[k] # "none") =>
          /\ releaseCalls[k] = 1
          /\ fnResult[k] = "throw" => lockOutcome[k] = "X"
          /\ lock[call[k].chain][call[k].address].holder # k

\* C2: no two callers hold the same wallet address at once, a caller holding
\* it from the return of its acquireLock until its own releaseLock (or the
\* expiry of the lease it asked for).
C2_MutualExclusion ==
  \A k1, k2 \in Callers : k1 # k2 => holds[k1] \cap holds[k2] = {}

----------------------------------------------------------------------------
(* Properties of the event wiring *)

\* What the listeners of this.emitter are owed for the events of the given
\* kinds: one delivery per emission made while its name had a listener.
Deliveries(kinds) ==
  LET sel == SelectSeq(emitted, LAMBDA x : x.subscribed /\ x.event \in kinds)
  IN [i \in 1..Len(sel) |-> [event |-> sel[i].event, chain |-> sel[i].chain,
                             network |-> Network(sel[i].chain), n |-> sel[i].n,
                             new |-> sel[i].new, prev |-> sel[i].prev]]

BalancesSeen(c) ==
  LET sel == SelectSeq(busLog, LAMBDA x : x.event = "balances" /\ x.chain = c)
  IN [i \in 1..Len(sel) |-> <<sel[i].n, sel[i].network, sel[i].new, sel[i].prev>>]

\* The balances events manager c emitted while "balances" had a listener.
BalancesEmitted(c) ==
  LET sel == SelectSeq(emitted, LAMBDA x : x.event = "balances" /\ x.chain = c
                                           /\ x.subscribed)
  IN [i \in 1..Len(sel) |-> <<sel[i].n, Network(c), sel[i].new, sel[i].prev>>]

\* C11: for each chain, the subscribers of the orchestrator's balances event
\* observe exactly the (new, previous) snapshots its manager emitted while they
\* were subscribed, in the order of emission, each with that manager's chain
\* name and network: none dropped, duplicated or attributed to another chain.
C11_SnapshotSequence ==
  \A c \in ChainNames : BalancesSeen(c) = BalancesEmitted(c)

C11_Witness ==
  /\ Len(busLog) = 2
  /\ busLog[1].event = "balances" /\ busLog[1].chain = "solana"
  /\ busLog[2].event = "balances" /\ busLog[2].chain = "ethereum"

\* C12: forwarding an error event of a chain manager never throws back into
\* the manager, whether or not "error" has a listener on the orchestrator.
C12_ErrorForwardingNeverThrows == thrown = {}

\* C13: once stop() has returned, stop() has been called on every manager the
\* orchestrator constructed, and no further event is delivered on the
\* orchestrator's emitter or to the metrics exporter.
C13_StopQuiescence ==
  /\ [](stopReturned => ManagerSet \subseteq stopped)
  /\ [][stopReturned => (busLog' = busLog /\ metricsLog' = metricsLog)]_vars

C13_Witness ==
  /\ stopReturned
  /\ metricsEnabled
  /\ Len(busLog) = 1
  /\ Len(metricsLog) = 1
  /\ stopped = {"ethereum", "solana"}

\* C14: when a per-chain operation of getAllBalances, pullBalances or
\* pullBalancesAtBlockHeight fails, the error the fanout surfaces names the
\* chain whose operation failed.
C14_FanoutErrorNamesChain ==
  (op \in MapOps \cup {"pullBalancesAtBlockHeight"} /\ phase = "threw"
     /\ outcome.error = "DriverError")
    => (outcome.chain \in ChainNames /\ tasks[outcome.chain] = "err")

\* C15: while fn of a withWallet call runs, the wallet is held by that call
\* under a lock without a lease deadline, whatever leaseTimeout was passed.
C15_HeldWithoutLeaseDuringFn ==
  \A k \in Callers :
    (call[k].api = "withWallet" /\ pc[k] = "fn")
      => /\ lock[call[k].chain][call[k].address].holder = k
         /\ ~lock[call[k].chain][call[k].address].lease

\* The call caller k makes in a step, for a chain without a manager.
CallsUnmanaged(k) ==
  /\ pc[k] = "idle"
  /\ pc'[k] # "idle"
  /\ call'[k].api \in {"acquireLock", "releaseLock", "getBlockHeight", "getChainBalances"}
  /\ call'[k].chain \notin ManagerSet

\* C16: acquireLock, releaseLock, getBlockHeight and getChainBalances for a
\* chain without a manager fail with UnknownChain in the step of the call,
\* before any suspension point, invoke no method of any manager, and leave
\* every lock, wait queue and snapshot unchanged.
C16_UnknownChainFailsFast ==
  [][\A k \in Callers :
       CallsUnmanaged(k)
         => /\ pc'[k] = "returned"
            /\ lockOutcome'[k] = "UnknownChain"
            /\ managerOps'[k] = {}
            /\ lock' = lock /\ waiters' = waiters /\ holds' = holds
            /\ snapshot' = snapshot /\ managerCalls' = managerCalls]_vars

C16_Witness ==
  /\ pc[1] = "returned" /\ call[1].api = "getBlockHeight"
  /\ call[1].chain = "solana" /\ lockOutcome[1] = "UnknownChain"
  /\ lock["ethereum"]["0xA"].holder = 2

\* The step in which the withWallet call of caller k fails to acquire.
AcquisitionFails(k) ==
  /\ call'[k].api = "withWallet"
  /\ pc[k] \in {"idle", "acquiring"}
  /\ lockOutcome'[k] \in {"UnknownChain", "AcquireTimeout"}

\* C19: when the acquisition of a withWallet call fails, the call ends with
\* the acquisition error, fn is never invoked, releaseLock is never called,
\* and the failing step leaves every lock as it was.
C19_FailedAcquisitionLeavesNoTrace ==
  /\ [](\A k \in Callers :
          (call[k].api = "withWallet"
             /\ lockOutcome[k] \in {"UnknownChain", "AcquireTimeout"})
            => /\ pc[k] = "returned"
               /\ fnResult[k] = "none"
               /\ releaseCalls[k] = 0
               /\ "releaseLock" \notin managerOps[k])
  /\ [][\A k \in Callers :
          AcquisitionFails(k) => (lock' = lock /\ holds' = holds)]_vars

C19_Witness ==
  /\ call[1].api = "withWallet"
  /\ pc[1] = "returned"
  /\ lockOutcome[1] = "AcquireTimeout"
  /\ lock["ethereum"]["0xA"].holder = 2

\* The positions of ctorTrace where start() is called on the manager of c.
StartsOf(c) ==
  {i \in DOMAIN ctorTrace : ctorTrace[i].chain = c /\ ctorTrace[i].step = "start"}

\* C20: for every valid chain the constructor registers the handlers of all
\* seven manager events and records the manager in this.managers before it
\* calls start() on it, and it calls start() exactly once per manager.
C20_WiringPrecedesStart ==
  /\ \A c \in ChainNames :
       Cardinality(StartsOf(c)) = IF c \in ManagerSet THEN 1 ELSE 0
  /\ \A c \in ManagerSet : startCalls[c] = 1
  /\ \A i \in DOMAIN ctorTrace :
       ctorTrace[i].step = "start"
         => /\ \A e \in EventNames :
                 \E j \in 1..(i - 1) :
                   ctorTrace[j] = [chain |-> ctorTrace[i].chain, step |-> "on",
                                   event |-> e]
            /\ \E j \in 1..(i - 1) : ctorTrace[j] = RecordStep(ctorTrace[i].chain)

C20_Witness ==
  /\ ctorStatus = "done"
  /\ config = <<"ethereum", "bogus", "solana">>
  /\ managers = <<"ethereum", "solana">>
  /\ Len(ctorTrace) = 18

\* The last event the exporter's handlers ran for.
LastReceived == received[Len(received)]

\* C17: on every balances event for a chain, also one whose snapshot equals
\* the previous one, the exporter sets the chain's lastUpdate to the time of
\* the event and the gauge of every balance entry of every address to the
\* entry's value, and leaves lastUpdate and the gauges of other chains alone.
C17_ExporterFreshness ==
  /\ []((received # <<>> /\ LastReceived.event = "balances")
          => /\ lastUpdate[LastReceived.chain] = LastReceived.time
             /\ \A a \in WalletAddresses : \A b \in LastReceived.balances[a] :
                  gauge[<<LastReceived.chain, b.symbol, a>>] = b.rawBalance)
  /\ [][\A c \in KnownChains :
          (Len(received') > Len(received) /\ received'[Len(received')].chain # c)
            => /\ lastUpdate'[c] = lastUpdate[c]
               /\ \A l \in GaugeLabels : l[1] = c => gauge'[l] = gauge[l]]_vars

C17_Witness ==
  /\ Len(received) = 2
  /\ received[1].event = "balances" /\ received[2].event = "balances"
  /\ received[1].chain = received[2].chain
  /\ received[1].balances = received[2].balances
  /\ received[1].time < received[2].time
  /\ lastUpdate[received[2].chain] = received[2].time
  /\ gauge[<<received[2].chain, "USDC", "0xA">>] = 20
  /\ gauge[<<received[2].chain, "ETH", "0xB">>] = 5

\* The error events received for chain c, and the counters created for it.
ErrorEvents(c) ==
  Cardinality({i \in DOMAIN received :
                 received[i].event = "error" /\ received[i].chain = c})

CountersCreated(c) ==
  Cardinality({i \in DOMAIN counters : counters[i].name = c})

\* C18: the exporter creates at most one error counter per chain, and after
\* n error events for a chain the chain's counter has the value n.
C18_OneCounterCountsErrors ==
  \A c \in KnownChains :
    /\ CountersCreated(c) <= 1
    /\ ErrorEvents(c) > 0
         => /\ errorCounters[c] # 0
            /\ counters[errorCounters[c]].value = ErrorEvents(c)
====
